---- MODULE Spec2Model ----
(***************************************************************************)
(* Celezdial Selekta: the audio engine of src/src/App.js and the tables of *)
(* src/src/tuning.js, as a state machine.                                  *)
(*                                                                         *)
(* Normal-range values (wet, feedback, depth ...) are integers in          *)
(* hundredths: 42 stands for 0.42.  Frequencies in Hz are in hundredths    *)
(* as well.                                                                *)
(***************************************************************************)
EXTENDS Integers, Sequences, FiniteSets, TLC

VARIABLES
    tracked,        \* the knobs of KNOB_DEFS this run follows
    params,         \* paramsRef.current, restricted to the tracked knobs
    engineRef,      \* engineRef.current is set
    eng,            \* the engine createEngine returns
    requested,      \* history: the last `bypassed` setBypass was called with, per node
    lastOp,         \* history: the handler that ran last
    config,         \* the chain config handed to wireChain
    buildState,     \* the result of the build of `config`
    curveEval,      \* the last evaluation of a macro curve: the curve, the
                    \* macro value and the value it gave
    engineLog,      \* history: how often createEngine was called, and the
                    \* engines ensureEngine gave a promise of, by number
    mounted,        \* the App component is mounted
    enginePromise,  \* _enginePromise: "null", "pending" or "resolved"
    pendingCalls,   \* the async handlers waiting in `await ensureEngine()`,
                    \* each with the state its closure captured
    transport,      \* the repeats scheduled on Tone.Transport
    activeSigns,    \* the `activeSigns` state
    shadow,         \* the `shadow` state, queued updates applied
    shadowIntervalsRef, \* shadowIntervalsRef.current
    chaosEntry,     \* history: paramsRef.current when Eclipse was last entered
    oscIndex,       \* the `oscIndex` state: -1 for null, else an index of OSC_TYPES
    pendingOscTypeRef,  \* pendingOscTypeRef.current
    breathCount,    \* history: how often Breathe was pressed
    natalMode,      \* the `natalMode` state
    natalChartDataRef,  \* the schedule composeNatalSchedule gives for
                    \* natalChartDataRef.current, << >> for null
    timers,         \* the pending setTimeouts of natal playback, oldest first
    natalTimeoutIdsRef, \* natalTimeoutIdsRef.current
    natalPulseIdsRef,   \* natalPulseIdsRef.current
    activated,      \* activatedSigns of each composition
    plays           \* history: how many compositions playNatalChart started

buildVars == <<config, buildState, curveEval, engineLog>>
lifeVars == <<mounted, enginePromise, pendingCalls, transport, activeSigns>>
chaosVars == <<shadow, shadowIntervalsRef, chaosEntry>>
oscVars == <<oscIndex, pendingOscTypeRef, breathCount>>
natalVars ==
    <<natalMode, natalChartDataRef, timers, natalTimeoutIdsRef, natalPulseIdsRef,
      activated, plays>>
vars ==
    <<tracked, params, engineRef, eng, requested, lastOp, buildVars, lifeVars,
      chaosVars, oscVars, natalVars>>

(***************************************************************************)
(* Tables of tuning.js                                                     *)
(***************************************************************************)

\* CHAINS.zodiac.order, the chain ACTIVE_CHAIN selects
ZodiacOrder ==
    <<"vibrato", "ECHO", "eq3", "chebyshev", "reverb", "chorus", "monitorEQ", "softClip">>

\* CHAINS.zodiac.bypass
ZodiacBypass ==
    [distortion |-> [after |-> "chebyshev", before |-> "reverb"],
     phaser     |-> [after |-> "chorus",    before |-> "monitorEQ"]]

ActiveChain == [order |-> ZodiacOrder, bypass |-> ZodiacBypass]

BypassNames == DOMAIN ZodiacBypass

\* KNOB_DEFS: min, max, default and scale of the knobs the model follows
KNOB_DEFS ==
    [ distortionWet   |-> [min |-> 0, max |-> 100, default |-> 0,  scale |-> "linear"],
      phaserWet       |-> [min |-> 0, max |-> 100, default |-> 0,  scale |-> "linear"],
      reverbWet       |-> [min |-> 0, max |-> 100, default |-> 42, scale |-> "linear"],
      delayFeedback   |-> [min |-> 0, max |-> 95,  default |-> 42, scale |-> "linear"],
      delayWet        |-> [min |-> 0, max |-> 100, default |-> 28, scale |-> "linear"],
      vibratoDepth    |-> [min |-> 0, max |-> 100, default |-> 22, scale |-> "linear"],
      vibratoFreq     |-> [min |-> 1, max |-> 500, default |-> 12, scale |-> "log"],
      chebyWet        |-> [min |-> 0, max |-> 100, default |-> 50, scale |-> "linear"],
      panLfoFreq      |-> [min |-> 1, max |-> 200, default |-> 4,  scale |-> "log"],
      panLfoAmplitude |-> [min |-> 0, max |-> 100, default |-> 18, scale |-> "linear"] ]

Knobs == DOMAIN KNOB_DEFS

WetKnobs == {"distortionWet", "phaserWet"}

\* the bypass node a wet knob drives (KNOB_MAP.phaserWet, KNOB_MAP.distortionWet)
WetNode(k) == IF k = "phaserWet" THEN "phaser" ELSE "distortion"

(***************************************************************************)
(* The audio graph                                                         *)
(***************************************************************************)

Destination == "destination"

\* chainNodes: the object a chain name stands for; "reverb" is the
\* pre-delay, which feeds the Freeverb
chainNodes(name) == IF name = "reverb" THEN "reverbPreDelay" ELSE name

\* connections createEngine makes before wireChain runs
EngineEdges ==
    { <<"echoDelay", "echoFilter">>, <<"echoFilter", "echoSat">>,
      <<"echoSat", "echoFeedbackGain">>, <<"echoFeedbackGain", "echoDelay">>,
      <<"reverbPreDelay", "Freeverb">>, <<"sumBus", "highpass">> }

\* the connections one entry of `order` adds, coming from `prev`
EntryEdges(prev, name) ==
    IF name = "ECHO"
    THEN { <<prev, "echoCrossfade.a">>, <<prev, "echoInputGain">>,
           <<"echoInputGain", "echoDelay">>, <<"echoDelay", "echoCrossfade.b">> }
    ELSE { <<prev, chainNodes(name)>> }

\* the running output with the delay taken for it at ECHO, not the crossfade
EntryOut_NoCrossfade(name) == IF name = "ECHO" THEN "echoDelay" ELSE chainNodes(name)

\* the running output after one entry of `order`
EntryOut(name) == IF name = "ECHO" THEN "echoCrossfade" ELSE chainNodes(name)

RECURSIVE WalkOrder(_, _, _)
\* the loop of wireChain over order[i..], ending with prev.toDestination()
WalkOrder(prev, order, i) ==
    IF i > Len(order)
    THEN { <<prev, Destination>> }
    ELSE EntryEdges(prev, order[i]) \cup WalkOrder(EntryOut(order[i]), order, i + 1)

\* wireChain(src, nodes, config): the connections made and the bypass tables.
\* It checks nothing and throws nothing: error is never set.
wireChain(src, cfg) ==
    [ edges       |-> WalkOrder(src, cfg.order, 1),
      bypassState |-> [n \in DOMAIN cfg.bypass |-> TRUE],
      bypassable  |-> [n \in DOMAIN cfg.bypass |->
                          [node |-> chainNodes(n),
                           prev |-> chainNodes(cfg.bypass[n].after),
                           next |-> chainNodes(cfg.bypass[n].before)]],
      error       |-> FALSE ]

\* the bypassable table of the engine
Bypassable == wireChain("highpass", ActiveChain).bypassable

(***************************************************************************)
(* Time, in ticks of 10 ms, for the wet ramps and the bypass timers        *)
(***************************************************************************)

\* rampTo(..., 0.05)
RampTicks == 5
\* setTimeout(..., 60)
SwapDelayTicks == 6

\* a signal held at v
Held(v) == [from |-> v, to |-> v, left |-> 0]

\* the value of a signal now: linear between from and to
ValueNow(w) == w.to - ((w.to - w.from) * w.left) \div RampTicks

\* signal.rampTo(v, 0.05): from the value now
RampTo(w, v) == [from |-> ValueNow(w), to |-> v, left |-> RampTicks]

(***************************************************************************)
(* setBypass and the knobs that call it.  E is an engine: its fields are   *)
(* edges, bypassState, wet (the wet signal of each bypass node),           *)
(* bypassTimers (the pending setTimeout callbacks of setBypass, as ticks   *)
(* left) and lastSplice (history: the last topology change of each node).  *)
(***************************************************************************)

\* AudioNode.disconnect(to) throws when there is no such connection
CanDisconnect(E, from, to) == <<from, to>> \in E

\* the un-bypass branch with the flag written before the first disconnect,
\* so that it is written even when the disconnect throws
SpliceIn_FlagFirst(E, name) ==
    LET b   == Bypassable[name]
        now == ValueNow(E.wet[name])
    IN  IF ~CanDisconnect(E.edges, b.prev, b.next)
        THEN [E EXCEPT !.bypassState[name] = FALSE]
        ELSE [ E EXCEPT
                 !.edges = (E.edges \ {<<b.prev, b.next>>})
                              \cup {<<b.prev, b.node>>, <<b.node, b.next>>},
                 !.lastSplice[name] = [kind |-> "in", wet |-> now],
                 !.wet[name] = RampTo(E.wet[name], IF now # 0 THEN now ELSE 100),
                 !.bypassState[name] = FALSE ]

\* the un-bypass branch of setBypass: the first disconnect throws when
\* prev is not wired to next, the catch swallows it and bypassState stays
SpliceIn(E, name) ==
    LET b   == Bypassable[name]
        now == ValueNow(E.wet[name])
    IN  IF ~CanDisconnect(E.edges, b.prev, b.next)
        THEN E
        ELSE [ E EXCEPT
                 !.edges = (E.edges \ {<<b.prev, b.next>>})
                              \cup {<<b.prev, b.node>>, <<b.node, b.next>>},
                 !.lastSplice[name] = [kind |-> "in", wet |-> now],
                 !.wet[name] = RampTo(E.wet[name], IF now # 0 THEN now ELSE 100),
                 !.bypassState[name] = FALSE ]

\* the bypass branch of setBypass (both bypass nodes have a wet signal):
\* ramp the wet down and leave the swap to a timer
RampOut(E, name) ==
    [ E EXCEPT
        !.wet[name] = RampTo(E.wet[name], 0),
        !.bypassTimers[name] = Append(E.bypassTimers[name], SwapDelayTicks),
        !.bypassState[name] = TRUE ]

\* setBypass without its first line, the early return
setBypass_NoEarlyReturn(E, name, bypassed) ==
    IF bypassed THEN RampOut(E, name) ELSE SpliceIn(E, name)

\* setBypass(name, bypassed)
setBypass(E, name, bypassed) ==
    IF E.bypassState[name] = bypassed
    THEN E
    ELSE IF bypassed THEN RampOut(E, name) ELSE SpliceIn(E, name)

\* the timer callback without its last line, b.prev.connect(b.next)
SwapOut_NoReconnect(E, name) ==
    LET b == Bypassable[name] IN
    IF ~CanDisconnect(E.edges, b.prev, b.node)
    THEN E
    ELSE [E EXCEPT !.edges = (E.edges \ {<<b.prev, b.node>>}) \ {<<b.node, b.next>>},
                   !.lastSplice[name] = [kind |-> "out", wet |-> ValueNow(E.wet[name])]]

\* the callback of the timer of setBypass: each disconnect may throw, and
\* the catch ends the callback where it stands
SwapOut(E, name) ==
    LET b   == Bypassable[name]
        E1  == E.edges \ {<<b.prev, b.node>>}
        E2  == E1 \ {<<b.node, b.next>>}
        log == [kind |-> "out", wet |-> ValueNow(E.wet[name])]
    IN  IF ~CanDisconnect(E.edges, b.prev, b.node)
        THEN E
        ELSE IF ~CanDisconnect(E1, b.node, b.next)
        THEN [E EXCEPT !.edges = E1, !.lastSplice[name] = log]
        ELSE [E EXCEPT !.edges = E2 \cup {<<b.prev, b.next>>},
                       !.lastSplice[name] = log]

\* KNOB_MAP.phaserWet.apply / KNOB_MAP.distortionWet.apply
ApplyWet(E, k, v) ==
    setBypass([E EXCEPT !.wet[WetNode(k)] = Held(v)], WetNode(k), v = 0)

(***************************************************************************)
(* The knobs                                                               *)
(***************************************************************************)

\* the knobs toggleShadow ramps, in the units of KNOB_DEFS
ChaosKnobs ==
    { "reverbWet", "delayFeedback", "delayWet", "vibratoDepth", "vibratoFreq",
      "chebyWet", "panLfoFreq", "panLfoAmplitude" }

\* KNOB_MAP[name].apply(eng, v).  For a signal of the fx table the engine
\* keeps the value it is set to or ramped to.
ApplyKnob(E, k, v) ==
    IF k \in WetKnobs THEN ApplyWet(E, k, v) ELSE [E EXCEPT !.fx[k] = v]

\* the order in which Object.entries(KNOB_DEFS) lists the knobs
KnobOrder ==
    << "chebyWet", "distortionWet", "vibratoFreq", "vibratoDepth", "delayFeedback",
       "delayWet", "reverbWet", "phaserWet", "panLfoFreq", "panLfoAmplitude" >>

RECURSIVE ApplyAll(_, _, _, _)
\* for (name of KNOB_DEFS) KNOB_MAP[name].apply(eng, value[name]), from the
\* i-th knob on, over the knobs in K
ApplyAll(E, K, value, i) ==
    IF i > Len(KnobOrder) THEN E
    ELSE IF KnobOrder[i] \in K
         THEN ApplyAll(ApplyKnob(E, KnobOrder[i], value[KnobOrder[i]]), K, value, i + 1)
         ELSE ApplyAll(E, K, value, i + 1)

\* initParams(): every knob at its default
initParams(K) == [k \in K |-> KNOB_DEFS[k].default]

(***************************************************************************)
(* Tables for Eclipse, Breathe and the per-sign voices                     *)
(***************************************************************************)

\* TUNING.echoSatDrive, in hundredths
EchoSatDrive == 60

\* SHADOW: the Eclipse targets, in hundredths; oscSpread as it stands
SHADOW ==
    [ reverbWet       |-> 80,
      delayFeedback   |-> 87,
      delayWet        |-> 86,
      vibratoDepth    |-> 72,
      vibratoFreq     |-> 6,
      chebyWet        |-> 100,
      panLfoFreq      |-> 18,
      panLfoAmplitude |-> 55,
      oscSpread       |-> 120 ]

\* OSC_TYPES, the types Breathe cycles through
OSC_TYPES ==
    << "fatsawtooth", "amsine", "fmtriangle", "fatsine", "amtriangle", "fmsine",
       "fattriangle", "fatsquare" >>

\* type.startsWith("fat")
IsFat(type) == type \in {"fatsawtooth", "fatsine", "fattriangle", "fatsquare"}

\* the signs of SIGNS this model follows: Leo, a fat-type sign, and Gemini,
\* an FM sign
Signs == {"Leo", "Gemini"}

\* SIGNS[sign].oscSpread
SignSpread == [Leo |-> 5, Gemini |-> 12]

\* the signs whose SIGN_CHARACTER oscType starts with "fat"
FatSigns == {"Leo"}

\* activeOscTypeRef.current: breathe sets it together with oscIndex
activeOscTypeRef == IF oscIndex = -1 THEN "null" ELSE OSC_TYPES[oscIndex + 1]

\* (activeOscTypeRef.current ?? SIGN_CHARACTER[name].oscType).startsWith("fat")
SignTypeIsFat(sign) ==
    IF activeOscTypeRef = "null" THEN sign \in FatSigns ELSE IsFat(activeOscTypeRef)

\* a repeat scheduled on Tone.Transport: the dampSweep repeat, the spread or
\* detune repeat of the n-th Eclipse entry, the pulse repeat of a sign in
\* the n-th composition
Proc(kind, n, sign) == [kind |-> kind, n |-> n, sign |-> sign]

DampSweepProc == Proc("dampSweep", 0, "-")

\* paramsRef.current[k]
Saved(k) == IF k \in tracked THEN params[k] ELSE KNOB_DEFS[k].default

\* st.<param> of toggleShadow: the value Eclipse ramps a parameter to
ShadowTarget(k) == SHADOW[k]

\* the Eclipse entry ramps of toggleShadow
RampToShadow(E) == [E EXCEPT !.fx = [k \in ChaosKnobs |-> ShadowTarget(k)]]

RestoreTarget_PreChaos(k) == chaosEntry[k]

\* saved.<param> of toggleShadow and breathe: the value a parameter is
\* ramped back to
RestoreTarget(k) == Saved(k)

\* the Eclipse exit ramps of toggleShadow and breathe
RampToSaved(E) == [E EXCEPT !.fx = [k \in ChaosKnobs |-> RestoreTarget(k)]]

\* restoreSpreadAndDetune(eng)
restoreSpreadAndDetune(E) ==
    [E EXCEPT !.spreadTracker = [s \in Signs |->
                                   IF SignTypeIsFat(s) THEN SignSpread[s] ELSE @[s]],
              !.detuneDrifted = FALSE,
              !.detune = [s \in Signs |-> "base"],
              !.detuneTracker = [s \in Signs |-> "base"]]

\* applyPendingOscType(eng), for what it does to the engine
applyPendingOscType(E) ==
    IF pendingOscTypeRef = "none" THEN E
    ELSE [E EXCEPT !.spreadTracker = [s \in Signs |->
             IF \/ pendingOscTypeRef = "per-sign" /\ s \in FatSigns
                \/ pendingOscTypeRef # "per-sign" /\ IsFat(pendingOscTypeRef)
             THEN SignSpread[s] ELSE @[s]]]

(***************************************************************************)
(* createEngine and ensureEngine                                           *)
(***************************************************************************)

\* the engine createEngine returns: the nodes at their TUNING values (the
\* defaults of KNOB_DEFS), the chain wired, every bypass node out
createEngine ==
    LET w == wireChain("highpass", ActiveChain) IN
    [ edges        |-> EngineEdges \cup w.edges,
      bypassState  |-> w.bypassState,
      wet          |-> [n \in BypassNames |-> Held(0)],
      bypassTimers |-> [n \in BypassNames |-> << >>],
      lastSplice   |-> [n \in BypassNames |-> [kind |-> "none", wet |-> 0]],
      fx           |-> [k \in ChaosKnobs |-> KNOB_DEFS[k].default],
      spreadTracker |-> [s \in Signs |-> SignSpread[s]],
      detuneDrifted |-> FALSE,
      detune        |-> [s \in Signs |-> "base"],
      detuneTracker |-> [s \in Signs |-> "base"],
      voices       |-> [s \in Signs |-> 0],
      envelope     |-> [s \in Signs |-> "saved"],
      voicing      |-> 0,
      boost        |-> 0,
      disposed     |-> FALSE ]

\* the engine once ensureEngine has applied every knob's default to it
EngineReady == ApplyAll(createEngine, Knobs, initParams(Knobs), 1)

(***************************************************************************)
(* setParam, randomizeParams and the passing of time                       *)
(***************************************************************************)

\* the values a knob is dragged to
EditLevels(k) ==
    { KNOB_DEFS[k].min, KNOB_DEFS[k].default, KNOB_DEFS[k].max,
      (KNOB_DEFS[k].min + KNOB_DEFS[k].max) \div 2 }

\* the engine promise has resolved and handlers that awaited it have yet to
\* run: they run before any other event
Draining == enginePromise = "resolved" /\ pendingCalls # << >>

\* names setParam may be called with that KNOB_MAP does not have
UnknownNames == {"echoFeedback"}

\* p[name] = value: an entry for a name p does not have yet is added
SetEntry(p, name, value) ==
    [x \in DOMAIN p \cup {name} |-> IF x = name THEN value ELSE p[x]]

\* setParam(name, value); KNOB_MAP[name]?.apply does nothing for a name
\* KNOB_MAP does not have
SetParam(k, v) ==
    /\ mounted
    /\ ~Draining
    /\ k \in tracked \cup UnknownNames
    /\ params' = SetEntry(params, k, v)
    /\ eng' = IF engineRef /\ k \in Knobs THEN ApplyKnob(eng, k, v) ELSE eng
    /\ requested' = IF engineRef /\ k \in WetKnobs
                    THEN [requested EXCEPT ![WetNode(k)] = (v = 0)]
                    ELSE requested
    /\ lastOp' = [op |-> "setParam", knob |-> k, value |-> v, thrown |-> FALSE,
                  sameState |-> /\ engineRef
                                /\ k \in WetKnobs
                                /\ eng.bypassState[WetNode(k)] = (v = 0)]
    /\ UNCHANGED <<tracked, engineRef, buildVars, lifeVars, chaosVars, oscVars, natalVars>>

\* Math.random() in hundredths: 0 <= norm < 1
RandomNorms == {0, 50, 99}

\* the draws followed for a knob: a log knob at 0 and one half, a linear
\* knob at 0 and just below 1
NormsFor(k) == IF KNOB_DEFS[k].scale = "log" THEN {0, 50} ELSE {0, 99}

\* one draw of Math.random() for each knob of K
RandomDraws(K) == { norm \in [K -> RandomNorms] : \A k \in K : norm[k] \in NormsFor(k) }

\* the largest r with r * r <= n
ISqrt(n) == CHOOSE r \in 0..n : r * r <= n /\ (r + 1) * (r + 1) > n

\* logMap(min, max).mapFromNorm(norm) = min * (max / min) ^ norm, for the
\* norms of RandomNorms: the geometric mean at one half
LogMapFromNorm(min, max, norm) ==
    IF norm = 0 THEN min ELSE ISqrt(min * max)

RandomValue_Unscaled(k, norm) ==
    KNOB_DEFS[k].min + norm * (KNOB_DEFS[k].max - KNOB_DEFS[k].min)

\* the value randomizeParams gives a knob for a norm
RandomValue(k, norm) ==
    LET def == KNOB_DEFS[k] IN
    IF def.scale = "log"
    THEN LogMapFromNorm(def.min, def.max, norm)
    ELSE def.min + (norm * (def.max - def.min)) \div 100

\* randomizeParams()
RandomizeParams(norm) ==
    LET newParams == [k \in tracked |-> RandomValue(k, norm[k])] IN
    /\ mounted
    /\ ~Draining
    /\ params' = newParams
    /\ eng' = IF engineRef THEN ApplyAll(eng, tracked, newParams, 1) ELSE eng
    /\ requested' = [n \in BypassNames |->
                       IF engineRef /\ \E k \in tracked \cap WetKnobs : WetNode(k) = n
                       THEN \E k \in tracked \cap WetKnobs :
                               WetNode(k) = n /\ newParams[k] = 0
                       ELSE requested[n]]
    /\ lastOp' = [op |-> "randomize"]
    /\ UNCHANGED <<tracked, engineRef, buildVars, lifeVars, chaosVars, oscVars, natalVars>>

\* 10 ms pass: every wet ramp and every bypass timer moves on.  A timer
\* that is due fires before more time passes.
BypassTick ==
    /\ engineRef
    /\ \E n \in BypassNames : eng.bypassTimers[n] # << >> \/ eng.wet[n].left > 0
    /\ \A n \in BypassNames :
          \A i \in 1..Len(eng.bypassTimers[n]) : eng.bypassTimers[n][i] > 0
    /\ eng' = [ eng EXCEPT
                  !.wet = [n \in BypassNames |->
                             IF eng.wet[n].left > 0
                             THEN [eng.wet[n] EXCEPT !.left = @ - 1]
                             ELSE eng.wet[n]],
                  !.bypassTimers = [n \in BypassNames |->
                             [i \in 1..Len(eng.bypassTimers[n]) |->
                                 eng.bypassTimers[n][i] - 1]] ]
    /\ lastOp' = [op |-> "tick"]
    /\ UNCHANGED <<tracked, params, engineRef, requested, buildVars>>
    /\ UNCHANGED <<lifeVars, chaosVars, oscVars, natalVars>>

\* the oldest timer of setBypass for a node is due and its callback runs
BypassTimerFire(n) ==
    /\ engineRef
    /\ eng.bypassTimers[n] # << >>
    /\ Head(eng.bypassTimers[n]) = 0
    /\ eng' = SwapOut([eng EXCEPT !.bypassTimers[n] = Tail(@)], n)
    /\ lastOp' = [op |-> "bypassTimer", node |-> n]
    /\ UNCHANGED <<tracked, params, engineRef, requested, buildVars>>
    /\ UNCHANGED <<lifeVars, chaosVars, oscVars, natalVars>>

(***************************************************************************)
(* The bypass nodes under knob edits: the engine is up, and the wet knobs  *)
(* may have been turned before it was                                      *)
(***************************************************************************)

\* the state of the App component when it has mounted
InitApp ==
    /\ mounted = TRUE
    /\ curveEval = [fn |-> "none"]
    /\ engineLog = [created |-> 0, handed |-> {}]
    /\ pendingCalls = << >>
    /\ activeSigns = {}
    /\ shadow = FALSE
    /\ shadowIntervalsRef = {}
    /\ chaosEntry = [k \in ChaosKnobs |-> KNOB_DEFS[k].default]
    /\ oscIndex = -1
    /\ pendingOscTypeRef = "none"
    /\ breathCount = 0
    /\ natalMode = FALSE
    /\ natalChartDataRef = << >>
    /\ timers = << >>
    /\ natalTimeoutIdsRef = {}
    /\ natalPulseIdsRef = [owner |-> 0, ids |-> {}]
    /\ activated = << >>
    /\ plays = 0

InitBypass ==
    /\ tracked = WetKnobs
    /\ params \in [WetKnobs -> {0, 50}]
    /\ engineRef = TRUE
    /\ eng = EngineReady
    /\ requested = [n \in BypassNames |-> TRUE]
    /\ lastOp = [op |-> "init"]
    /\ config = ActiveChain
    /\ buildState = [built |-> FALSE]
    /\ enginePromise = "resolved"
    /\ transport = {DampSweepProc}
    /\ InitApp

NextBypass ==
    \/ \E k \in WetKnobs : \E v \in EditLevels(k) : SetParam(k, v)
    \/ \E k \in UnknownNames : \E v \in {0, 50} : SetParam(k, v)
    \/ \E norm \in RandomDraws(tracked) : RandomizeParams(norm)
    \/ BypassTick
    \/ \E n \in BypassNames : BypassTimerFire(n)

SpecBypass == InitBypass /\ [][NextBypass]_vars

(***************************************************************************)
(* The bypass nodes: properties                                            *)
(***************************************************************************)

\* `after` is wired straight to `before` and the node hangs on neither
BypassedTopology(E, n) ==
    LET b == Bypassable[n] IN
    /\ <<b.prev, b.next>> \in E.edges
    /\ <<b.prev, b.node>> \notin E.edges
    /\ <<b.node, b.next>> \notin E.edges

\* the node is spliced between `after` and `before`
ActiveTopology(E, n) ==
    LET b == Bypassable[n] IN
    /\ <<b.prev, b.next>> \notin E.edges
    /\ <<b.prev, b.node>> \in E.edges
    /\ <<b.node, b.next>> \in E.edges

\* what can be heard or seen of the bypass nodes of an engine
BypassView(E) ==
    [ edges |-> E.edges, bypassState |-> E.bypassState,
      bypassTimers |-> E.bypassTimers,
      wetTo  |-> [n \in BypassNames |-> E.wet[n].to],
      wetNow |-> [n \in BypassNames |-> ValueNow(E.wet[n])] ]

\* C2: once no swap is pending for a node, its topology is the one the
\* latest setBypass request asked for (a request that arrives while a swap
\* is pending cancels the swap and wins).
C2_LatestRequestWins ==
    engineRef =>
        \A n \in BypassNames :
            eng.bypassTimers[n] = << >> =>
                /\ requested[n] => BypassedTopology(eng, n)
                /\ ~requested[n] => ActiveTopology(eng, n)

\* C3: every connect or disconnect of a bypass toggle happens while the
\* node's wet value is 0.
C3_SpliceOnlyAtZeroWet ==
    engineRef =>
        \A n \in BypassNames :
            eng.lastSplice[n].kind # "none" => eng.lastSplice[n].wet = 0

\* C4: a wet-knob edit that asks setBypass for the state the node is
\* already in connects nothing, disconnects nothing, starts no ramp and
\* schedules no timer; and asking twice leaves what asking once leaves.
C4_SameStateNoop ==
    [][ /\ (lastOp'.op = "setParam" /\ lastOp'.sameState) =>
              /\ eng'.edges = eng.edges
              /\ eng'.bypassState = eng.bypassState
              /\ eng'.bypassTimers = eng.bypassTimers
              /\ eng'.lastSplice = eng.lastSplice
              /\ eng'.wet[WetNode(lastOp'.knob)] = Held(lastOp'.value)
        /\ \A n \in BypassNames : \A b \in BOOLEAN :
              BypassView(setBypass(setBypass(eng, n, b), n, b))
                  = BypassView(setBypass(eng, n, b)) ]_vars

\* C4 witness: a bypass was asked for again while its swap was pending
C4_Witness ==
    /\ lastOp.op = "setParam"
    /\ lastOp.sameState
    /\ lastOp.value = 0
    /\ eng.bypassTimers[WetNode(lastOp.knob)] # << >>

\* C5: a node that was un-bypassed and then bypassed again is, once its
\* timers have run, back in the topology the build left: `after` wired to
\* `before`, the node on neither, and the rest of the graph as built.
C5_RoundTripRestores ==
    engineRef =>
        \A n \in BypassNames :
            (requested[n] /\ eng.bypassTimers[n] = << >>) =>
                /\ BypassedTopology(eng, n)
                /\ (\A m \in BypassNames :
                        requested[m] /\ eng.bypassTimers[m] = << >>)
                      => eng.edges = EngineReady.edges

\* C5 witness: a node was spliced in, then swapped out by its timer
C5_Witness ==
    \E n \in BypassNames :
        /\ eng.lastSplice[n].kind = "out"
        /\ requested[n]
        /\ eng.bypassTimers[n] = << >>
        /\ BypassedTopology(eng, n)

(***************************************************************************)
(* wireChain on any chain config, as createEngine calls it on              *)
(* CHAINS[ACTIVE_CHAIN]                                                    *)
(***************************************************************************)

\* the longest `order` tried
MaxOrderLen == 3

\* the names an `order` is drawn from
OrderNames == {"chebyshev", "ECHO", "distortion"}

\* the orders tried: every sequence of up to MaxOrderLen names
Orders == UNION { [1..len -> OrderNames] : len \in 1..MaxOrderLen }

\* the bypass tables tried: none, or distortion between chebyshev and softClip
BypassTables ==
    { << >>, [distortion |-> [after |-> "chebyshev", before |-> "softClip"]] }

\* how often a name occurs in an order
Count(order, name) == Cardinality({i \in 1..Len(order) : order[i] = name})

\* the sentinel twice in order, or a bypass node that is in order as well
Malformed(cfg) ==
    \/ Count(cfg.order, "ECHO") > 1
    \/ \E n \in DOMAIN cfg.bypass : Count(cfg.order, n) > 0

\* the bypass table of CHAINS.custom with its two commented entries put in
CustomBypass_Uncommented ==
    [ distortion |-> [after |-> "chebyshev", before |-> "eq3"],
      phaser     |-> [after |-> "chorus", before |-> "monitorEQ"] ]

\* the bypass table of CHAINS.custom: both of its entries are commented out
CustomBypass == << >>

\* CHAINS: the chain configs of tuning.js, the same in the CHAINS table of
\* every preset that has the chain (zodiac is missing from some tables,
\* custom from presets/zodiac.js)
CHAINS ==
    [ cathedral |->
        [ order  |-> << "chebyshev", "eq3", "vibrato", "ECHO", "reverb", "chorus",
                        "monitorEQ", "softClip" >>,
          bypass |-> [ distortion |-> [after |-> "chebyshev", before |-> "eq3"],
                       phaser     |-> [after |-> "chorus", before |-> "monitorEQ"] ] ],
      void |->
        [ order  |-> << "chebyshev", "distortion", "eq3", "vibrato", "reverb",
                        "phaser", "ECHO", "chorus", "monitorEQ", "softClip" >>,
          bypass |-> << >> ],
      furnace |->
        [ order  |-> << "ECHO", "chebyshev", "distortion", "eq3", "vibrato",
                        "reverb", "chorus", "phaser", "monitorEQ", "softClip" >>,
          bypass |-> << >> ],
      tape |->
        [ order  |-> << "vibrato", "chebyshev", "distortion", "eq3", "ECHO",
                        "reverb", "chorus", "phaser", "monitorEQ", "softClip" >>,
          bypass |-> << >> ],
      evolve |->
        [ order  |-> << "vibrato", "ECHO", "reverb", "phaser", "chebyshev",
                        "distortion", "eq3", "chorus", "monitorEQ", "softClip" >>,
          bypass |-> << >> ],
      glass |->
        [ order  |-> << "eq3", "vibrato", "ECHO", "reverb", "chorus", "phaser",
                        "monitorEQ", "softClip" >>,
          bypass |-> << >> ],
      zodiac |-> ActiveChain,
      custom |->
        [ order  |-> << "chorus", "phaser", "eq3", "vibrato", "chebyshev",
                        "distortion", "ECHO", "monitorEQ", "softClip", "reverb" >>,
          bypass |-> CustomBypass ] ]

\* the chain configs that are shipped
ShippedChains == {CHAINS[n] : n \in DOMAIN CHAINS}

\* the configs built: every small one, and the shipped ones
InitBuild ==
    /\ config \in [order : Orders, bypass : BypassTables] \cup ShippedChains
    /\ buildState = [built |-> FALSE]
    /\ tracked = {}
    /\ params = << >>
    /\ engineRef = FALSE
    /\ eng = createEngine
    /\ requested = [n \in BypassNames |-> TRUE]
    /\ lastOp = [op |-> "init"]
    /\ enginePromise = "pending"
    /\ transport = {}
    /\ InitApp

\* createEngine reaches its call of wireChain
Build ==
    /\ ~buildState.built
    /\ buildState' = [built |-> TRUE, result |-> wireChain("highpass", config)]
    /\ lastOp' = [op |-> "build"]
    /\ UNCHANGED <<config, curveEval, engineLog, tracked, params, engineRef, eng, requested>>
    /\ UNCHANGED <<lifeVars, chaosVars, oscVars, natalVars>>

NextBuild == Build

SpecBuild == InitBuild /\ [][NextBuild]_vars

\* C6: the build of a config with the sentinel twice in `order`, or with a
\* bypass node that is in `order` too, ends in a validation error and wires
\* nothing.
C6_MalformedConfigRejected ==
    (buildState.built /\ Malformed(config)) =>
        /\ buildState.result.error
        /\ buildState.result.edges = {}

(***************************************************************************)
(* The engine's life: ensureEngine, the handlers that await it, the        *)
(* repeats on Tone.Transport, unmount                                      *)
(***************************************************************************)

MaxPending == 2
MaxBreathe == 2
MaxSerial == MaxPending + 1

\* an async handler as it waits in `await ensureEngine()`: the values of
\* the render it was created in
Call(op, sign) ==
    [op |-> op, sign |-> sign, shadow |-> shadow, activeSigns |-> activeSigns,
     oscIndex |-> oscIndex]

\* ensureEngine without its creation lock: every caller that finds no
\* engine calls createEngine
StartsCreate_NoLock == enginePromise # "resolved"

\* `if (!_enginePromise)` of ensureEngine
StartsCreate == enginePromise = "null"

\* engineLog after a call of ensureEngine that finds no engine: one more
\* createEngine if the caller starts one, and the engine the caller's
\* promise is of
PromiseLogged ==
    LET created == IF StartsCreate THEN engineLog.created + 1 ELSE engineLog.created IN
    [created |-> created, handed |-> engineLog.handed \cup {created}]

\* ensureEngine() with no engine yet: the first caller starts createEngine,
\* every caller gets _enginePromise and waits for it
Await(call) ==
    /\ ~engineRef
    /\ enginePromise # "resolved"
    /\ Len(pendingCalls) < MaxPending
    /\ pendingCalls' = Append(pendingCalls, call)
    /\ enginePromise' = "pending"
    /\ engineLog' = PromiseLogged
    /\ UNCHANGED <<tracked, params, engineRef, eng, requested, lastOp>>
    /\ UNCHANGED <<config, buildState, curveEval>>
    /\ UNCHANGED <<mounted, transport, activeSigns, chaosVars, oscVars, natalVars>>

\* createEngine() resolves and the then-callback of ensureEngine runs:
\* dampSweep.start() has scheduled its repeat, every knob default is applied,
\* engineRef.current is set
EngineCreated ==
    /\ enginePromise = "pending"
    /\ enginePromise' = "resolved"
    /\ eng' = EngineReady
    /\ engineRef' = TRUE
    /\ transport' = transport \cup {DampSweepProc}
    /\ lastOp' = [op |-> "engineCreated"]
    /\ UNCHANGED <<tracked, params, requested, buildVars>>
    /\ UNCHANGED <<mounted, pendingCalls, activeSigns, chaosVars, oscVars, natalVars>>

\* an id Tone.Transport.scheduleRepeat has not handed out to a repeat that
\* is scheduled or held in shadowIntervalsRef
FreshSerial ==
    CHOOSE n \in 1..MaxSerial :
        /\ \A q \in transport \cup shadowIntervalsRef :
              q.kind \in {"spread", "detune"} => q.n # n
        /\ \A m \in 1..(n - 1) :
              \E q \in transport \cup shadowIntervalsRef :
                  q.kind \in {"spread", "detune"} /\ q.n = m

\* toggleShadow after its await, in a closure that captured shadow = sh
ToggleShadowBody(sh) ==
    LET procs == {Proc("spread", FreshSerial, "-"), Proc("detune", FreshSerial, "-")} IN
    /\ IF ~sh
       THEN /\ eng' = RampToShadow(eng)
            /\ transport' = transport \cup procs
            /\ shadowIntervalsRef' = procs
            /\ chaosEntry' = [k \in ChaosKnobs |-> Saved(k)]
       ELSE /\ transport' = transport \ shadowIntervalsRef
            /\ shadowIntervalsRef' = {}
            /\ eng' = restoreSpreadAndDetune(RampToSaved(eng))
            /\ UNCHANGED chaosEntry
    /\ shadow' = ~shadow
    /\ lastOp' = [op |-> "toggleShadow", branch |-> IF sh THEN "disable" ELSE "enable"]
    /\ UNCHANGED <<tracked, params, engineRef, requested, buildVars>>
    /\ UNCHANGED <<mounted, enginePromise, activeSigns, oscVars, natalVars>>

\* the Eclipse button
ToggleShadow ==
    /\ mounted
    /\ ~Draining
    /\ IF engineRef
       THEN ToggleShadowBody(shadow) /\ UNCHANGED pendingCalls
       ELSE Await(Call("toggleShadow", "-"))

\* a toggleShadow that waited for the engine goes on
ResumeToggleShadow ==
    /\ Draining
    /\ Head(pendingCalls).op = "toggleShadow"
    /\ ToggleShadowBody(Head(pendingCalls).shadow)
    /\ pendingCalls' = Tail(pendingCalls)

(***************************************************************************)
(* Natal playback: the setTimeouts of playNatalChart, in ticks of          *)
(* TUNING.retriggerGap (80 ms), and stopNatalPlayback                      *)
(***************************************************************************)

MaxPlays == 2
MaxNatalBreathe == 1    \* Breathe presses followed next to natal playback
GapTicks == 1       \* setTimeout(..., TUNING.retriggerGap)
HoldTicks == 1      \* NATAL_COMP.SUSTAIN_HOLD after schedule.totalDuration
TailTicks == 1      \* FINALE.tailTime

\* the schedules composeNatalSchedule gives for the charts followed: events
\* in time order, each a sign entering as a pad or as a pulse
NatalSchedules ==
    { << [sign |-> "Leo", mode |-> "pulse", time |-> 0] >>,
      << [sign |-> "Gemini", mode |-> "pad", time |-> 0],
         [sign |-> "Leo", mode |-> "pulse", time |-> 1] >> }

\* schedule.totalDuration
TotalDuration(sched) == sched[Len(sched)].time

\* FINALE.reverbWet, near the top of the wet range
FinaleWets == {90, 100}

FinaleDelay_NoHold(sched) == TotalDuration(sched)

\* finaleTime of playNatalChart
FinaleDelay(sched) == TotalDuration(sched) + HoldTicks

\* a pending setTimeout of the gen-th composition
Timer(gen, kind, idx, left, sign, mode) ==
    [gen |-> gen, kind |-> kind, idx |-> idx, left |-> left, sign |-> sign, mode |-> mode]

\* the id setTimeout returned for a timer
TimerId(t) == [gen |-> t.gen, kind |-> t.kind, idx |-> t.idx]

\* clearTimeout for every id of ids
ClearTimeouts(T, ids) == SelectSeq(T, LAMBDA t : TimerId(t) \notin ids)

\* a fresh empty array in natalPulseIdsRef: owner is the composition whose
\* pulseIds array the ref holds, 0 for an array of no composition
NoPulseIds == [owner |-> 0, ids |-> {}]

\* s.releaseAll() on every synth
ReleaseAll(E) == [E EXCEPT !.voices = [s \in Signs |-> 0]]

\* synth.set({ envelope: ... }) on every synth: "saved" for the ADSR of the
\* knobs times the sign's multipliers, "cut" for that ADSR with release at
\* FINALE.cutRelease; a pulse voice alone has "pulse", NATAL_COMP.PULSE_ENVELOPE
SetEnvelopes(E, env) == [E EXCEPT !.envelope = [s \in Signs |-> env]]

\* stopNatalPlayback(eng), for what it does to the engine: voices released,
\* reverb wet ramped to the saved value, every envelope back to the knobs
StopNatalEngine(E) ==
    SetEnvelopes([ReleaseAll(E) EXCEPT !.fx["reverbWet"] = Saved("reverbWet")], "saved")

\* the keys of SIGNS: the twelve keys of the zodiac keyboard
ZodiacSigns ==
    { "Aquarius", "Pisces", "Aries", "Taurus", "Gemini", "Cancer", "Leo", "Virgo",
      "Libra", "Scorpio", "Sagittarius", "Capricorn" }

RECURSIVE Log2Frac(_, _)
\* the first k binary digits of log2(x / 2^14) for 2^14 <= x < 2^15, in
\* units of 2^-k: square, and halve when the square reaches 2
Log2Frac(x, k) ==
    IF k = 0 THEN 0
    ELSE LET y == (x * x) \div 16384 IN
         IF y >= 32768 THEN 2 ^ (k - 1) + Log2Frac(y \div 2, k - 1)
         ELSE Log2Frac(y, k - 1)

RECURSIVE Log2(_, _)
\* n + log2(x / 2^14) for x >= 2^14, in units of 2^-12
Log2(x, n) ==
    IF x >= 32768 THEN Log2(x \div 2, n + 1) ELSE n * 4096 + Log2Frac(x, 12)

\* 5 * Math.log10(num / den) for num >= den > 0, in thousandths of a dB:
\* 5 * log10(2) * log2(num / den), with log10(2) = 0.3010
FiveLog10(num, den) == (1505 * Log2((num * 16384) \div den, 0)) \div 4096

\* Math.max(1, activeCount)
Max1(activeCount) == IF activeCount > 1 THEN activeCount ELSE 1

Boost_Unguarded(activeCount) == FiveLog10(12, Max1(activeCount))

\* boost of applyAdaptiveVoicing, in thousandths of a dB
Boost(activeCount) ==
    IF activeCount > 0 THEN FiveLog10(12, Max1(activeCount)) ELSE 0

\* applyAdaptiveVoicing(eng, activeCount): every synth's volume is set from
\* the boost of activeCount; the engine keeps the count and the boost its
\* volumes stand for
applyAdaptiveVoicing(E, activeCount) ==
    [E EXCEPT !.voicing = activeCount, !.boost = Boost(activeCount)]

ActivationCount_Stale(prev) == Cardinality(prev)

\* next.size + 1 of toggleSign: the size of the set once the sign is in it
ActivationCount(prev) == Cardinality(prev) + 1

\* breathe after its await, in a closure that captured shadow = sh,
\* activeSigns = act, oscIndex = oi
BreatheBody(sh, act, oi) ==
    LET stop == natalPulseIdsRef.ids # {} \/ natalTimeoutIdsRef # {}
        e1   == IF stop THEN StopNatalEngine(eng) ELSE eng
        e2   == IF act # {} THEN applyAdaptiveVoicing(ReleaseAll(e1), 0) ELSE e1
        e3   == IF sh THEN restoreSpreadAndDetune(RampToSaved(e2)) ELSE e2
        tr1  == IF stop THEN transport \ natalPulseIdsRef.ids ELSE transport
        next == IF oi = -1 THEN 0
                ELSE IF oi + 1 >= Len(OSC_TYPES) THEN -1 ELSE oi + 1
    IN
    /\ eng' = e3
    /\ transport' = IF sh THEN tr1 \ shadowIntervalsRef ELSE tr1
    /\ timers' = IF stop THEN ClearTimeouts(timers, natalTimeoutIdsRef) ELSE timers
    /\ natalTimeoutIdsRef' = IF stop THEN {} ELSE natalTimeoutIdsRef
    /\ natalPulseIdsRef' = IF stop THEN NoPulseIds ELSE natalPulseIdsRef
    /\ activeSigns' = IF act # {} THEN {} ELSE activeSigns
    /\ shadow' = IF sh THEN FALSE ELSE shadow
    /\ shadowIntervalsRef' = IF sh THEN {} ELSE shadowIntervalsRef
    /\ pendingOscTypeRef' = IF next = -1 THEN "per-sign" ELSE OSC_TYPES[next + 1]
    /\ oscIndex' = next
    /\ lastOp' = [op |-> "breathe", branch |-> IF sh THEN "disable" ELSE "none"]
    /\ UNCHANGED <<tracked, params, engineRef, requested, buildVars>>
    /\ UNCHANGED <<mounted, enginePromise, chaosEntry>>
    /\ UNCHANGED <<natalMode, natalChartDataRef, activated, plays>>

\* the Breathe button
Breathe ==
    /\ mounted
    /\ ~Draining
    /\ breathCount < MaxBreathe
    /\ breathCount' = breathCount + 1
    /\ IF engineRef
       THEN BreatheBody(shadow, activeSigns, oscIndex) /\ UNCHANGED pendingCalls
       ELSE /\ Len(pendingCalls) < MaxPending
            /\ pendingCalls' = Append(pendingCalls, Call("breathe", "-"))
            /\ enginePromise' = "pending"
            /\ engineLog' = PromiseLogged
            /\ UNCHANGED <<tracked, params, engineRef, eng, requested, lastOp>>
            /\ UNCHANGED <<config, buildState, curveEval>>
            /\ UNCHANGED <<mounted, transport, activeSigns, chaosVars, natalVars>>
            /\ UNCHANGED <<oscIndex, pendingOscTypeRef>>

\* a breathe that waited for the engine goes on
ResumeBreathe ==
    /\ Draining
    /\ Head(pendingCalls).op = "breathe"
    /\ BreatheBody(Head(pendingCalls).shadow, Head(pendingCalls).activeSigns,
                   Head(pendingCalls).oscIndex)
    /\ pendingCalls' = Tail(pendingCalls)
    /\ UNCHANGED breathCount

\* eng.synths[sign] starts (v # 0) or releases (v = 0) its note; the model
\* follows the voices of Signs
SetVoice(E, sign, v) == IF sign \in Signs THEN [E EXCEPT !.voices[sign] = v] ELSE E

\* eng.synths[sign].set({ detune: ... }): "base" for the sign's
\* detuneCents, "natal" for the detuneCents of its natal activation, "drift"
\* for a value of the Eclipse drift
SetDetune(E, sign, d) == IF sign \in Signs THEN [E EXCEPT !.detune[sign] = d] ELSE E

\* the signs natalActivations has an entry for: those of the chart
NatalActivationSigns == {natalChartDataRef[i].sign : i \in 1..Len(natalChartDataRef)}

\* the detune of the activation branch of toggleSign
ActivationDetune(E, sign) ==
    IF natalMode /\ sign \in NatalActivationSigns THEN SetDetune(E, sign, "natal") ELSE E

\* toggleSign(sign) after its await: the updater of setActiveSigns
ToggleSignBody(sign) ==
    /\ IF sign \in activeSigns
       THEN /\ eng' = applyAdaptiveVoicing(SetDetune(SetVoice(eng, sign, 0), sign, "base"),
                                           Cardinality(activeSigns \ {sign}))
            /\ activeSigns' = activeSigns \ {sign}
            /\ UNCHANGED pendingOscTypeRef
            /\ lastOp' = [op |-> "toggleSign", sign |-> sign, branch |-> "off",
                          calls |-> <<"release", "detune", "voicing">>]
       ELSE /\ eng' = SetVoice(applyAdaptiveVoicing(
                                    ActivationDetune(applyPendingOscType(eng), sign),
                                    ActivationCount(activeSigns)),
                                sign, -1)
            /\ activeSigns' = activeSigns \cup {sign}
            /\ pendingOscTypeRef' = "none"
            /\ lastOp' = [op |-> "toggleSign", sign |-> sign, branch |-> "on",
                          calls |-> <<"applyPendingOscType", "voicing", "attack">>]
    /\ UNCHANGED <<tracked, params, engineRef, requested, buildVars>>
    /\ UNCHANGED <<mounted, enginePromise, transport, chaosVars, natalVars>>
    /\ UNCHANGED <<oscIndex, breathCount>>

\* a key of the zodiac keyboard
ToggleSign(sign) ==
    /\ mounted
    /\ ~Draining
    /\ IF engineRef
       THEN ToggleSignBody(sign) /\ UNCHANGED pendingCalls
       ELSE Await(Call("toggleSign", sign))

\* a toggleSign that waited for the engine goes on
ResumeToggleSign ==
    /\ Draining
    /\ Head(pendingCalls).op = "toggleSign"
    /\ ToggleSignBody(Head(pendingCalls).sign)
    /\ pendingCalls' = Tail(pendingCalls)

\* computeNatalChart(): the chart data is stored, natal mode is on
ComputeNatalChart(sched) ==
    /\ mounted
    /\ ~Draining
    /\ natalChartDataRef' = sched
    /\ natalMode' = TRUE
    /\ lastOp' = [op |-> "computeNatalChart"]
    /\ UNCHANGED <<tracked, params, engineRef, eng, requested, buildVars>>
    /\ UNCHANGED <<lifeVars, chaosVars, oscVars>>
    /\ UNCHANGED <<timers, natalTimeoutIdsRef, natalPulseIdsRef, activated, plays>>

\* playNatalChart after its await: stopNatalPlayback(eng), then the
\* setTimeout of TUNING.retriggerGap, whose id is not kept
PlayNatalChartBody ==
    /\ plays' = plays + 1
    /\ activated' = Append(activated, {})
    /\ eng' = StopNatalEngine(eng)
    /\ transport' = transport \ natalPulseIdsRef.ids
    /\ timers' = Append(ClearTimeouts(timers, natalTimeoutIdsRef),
                        Timer(plays + 1, "gap", 0, GapTicks, "-", "-"))
    /\ natalTimeoutIdsRef' = {}
    /\ natalPulseIdsRef' = NoPulseIds
    /\ lastOp' = [op |-> "playNatalChart", gen |-> plays + 1]
    /\ UNCHANGED <<tracked, params, engineRef, requested, buildVars>>
    /\ UNCHANGED <<mounted, enginePromise, activeSigns, chaosVars, oscVars>>
    /\ UNCHANGED <<natalMode, natalChartDataRef>>

\* the playNatalChart calls that wait for the engine
PendingPlays == {i \in DOMAIN pendingCalls : pendingCalls[i].op = "playNatalChart"}

\* the Play Chart button
PlayNatalChart ==
    /\ mounted
    /\ ~Draining
    /\ natalMode
    /\ natalChartDataRef # << >>
    /\ plays + Cardinality(PendingPlays) < MaxPlays
    /\ IF engineRef
       THEN PlayNatalChartBody /\ UNCHANGED pendingCalls
       ELSE Await(Call("playNatalChart", "-"))

\* a playNatalChart that waited for the engine goes on
ResumePlayNatalChart ==
    /\ Draining
    /\ Head(pendingCalls).op = "playNatalChart"
    /\ PlayNatalChartBody
    /\ pendingCalls' = Tail(pendingCalls)

\* one tick passes for the pending setTimeouts; a timer that is due runs
\* before more time passes
TimerTick ==
    /\ ~Draining
    /\ timers # << >>
    /\ \A i \in DOMAIN timers : timers[i].left > 0
    /\ timers' = [i \in DOMAIN timers |-> [timers[i] EXCEPT !.left = @ - 1]]
    /\ lastOp' = [op |-> "tick"]
    /\ UNCHANGED <<tracked, params, engineRef, eng, requested, buildVars>>
    /\ UNCHANGED <<lifeVars, chaosVars, oscVars>>
    /\ UNCHANGED <<natalMode, natalChartDataRef, natalTimeoutIdsRef, natalPulseIdsRef,
                   activated, plays>>

\* the timer that runs next: the oldest of the due ones
DueIndex == CHOOSE i \in DOMAIN timers :
               timers[i].left = 0 /\ \A j \in 1..(i - 1) : timers[j].left > 0

Due(kind) ==
    /\ ~Draining
    /\ \E i \in DOMAIN timers : timers[i].left = 0
    /\ timers[DueIndex].kind = kind

\* the pending timers without the one that runs
RestTimers ==
    SubSeq(timers, 1, DueIndex - 1) \o SubSeq(timers, DueIndex + 1, Len(timers))

\* a timer callback on an engine that was disposed: its first call on a
\* disposed node throws and the rest of the callback does not run
TimerThrows(op) ==
    /\ eng.disposed
    /\ timers' = RestTimers
    /\ lastOp' = [op |-> op, gen |-> timers[DueIndex].gen, thrown |-> TRUE]
    /\ UNCHANGED <<tracked, params, engineRef, eng, requested, buildVars>>
    /\ UNCHANGED <<lifeVars, chaosVars, oscVars>>
    /\ UNCHANGED <<natalMode, natalChartDataRef, natalTimeoutIdsRef, natalPulseIdsRef,
                   activated, plays>>

\* the callback of the retriggerGap timer: the pending osc type is
\* applied, the schedule is composed, one timer per event and the finale
\* timer are set, both refs are overwritten
GapFire ==
    /\ Due("gap")
    /\ \/ pendingOscTypeRef # "none" /\ TimerThrows("natalGap")
       \/ LET g       == timers[DueIndex].gen
              sched   == natalChartDataRef
              entries == [i \in 1..Len(sched) |->
                            Timer(g, "entry", i, sched[i].time, sched[i].sign,
                                  sched[i].mode)]
              finale  == Timer(g, "finale", 0, FinaleDelay(sched), "-", "-")
          IN
          /\ eng' = applyPendingOscType(eng)
          /\ pendingOscTypeRef' = "none"
          /\ timers' = (RestTimers \o entries) \o <<finale>>
          /\ natalTimeoutIdsRef' =
                 {TimerId(entries[i]) : i \in 1..Len(sched)} \cup {TimerId(finale)}
          /\ natalPulseIdsRef' = [owner |-> g, ids |-> {}]
          /\ lastOp' = [op |-> "natalGap", gen |-> g, thrown |-> FALSE]
          /\ UNCHANGED <<tracked, params, engineRef, requested, buildVars>>
          /\ UNCHANGED <<lifeVars, chaosVars, oscIndex, breathCount>>
          /\ UNCHANGED <<natalMode, natalChartDataRef, activated, plays>>

\* the callback of an event's timer: the sign enters, as a pad
\* (triggerAttack) or as a pulse (a first blip and a repeat on the
\* Transport, its id pushed to the composition's pulseIds array)
EntryFire ==
    /\ Due("entry")
    /\ \/ TimerThrows("natalEntry")
       \/ LET t == timers[DueIndex]
              g == t.gen
              p == Proc("pulse", g, t.sign)
          IN
          /\ timers' = RestTimers
          /\ activated' = [activated EXCEPT ![g] = @ \cup {t.sign}]
          /\ activeSigns' = activated[g] \cup {t.sign}
          /\ IF t.mode = "pulse"
             THEN /\ transport' = transport \cup {p}
                  /\ natalPulseIdsRef' =
                         IF natalPulseIdsRef.owner = g
                         THEN [natalPulseIdsRef EXCEPT !.ids = @ \cup {p}]
                         ELSE natalPulseIdsRef
                  /\ eng' = [applyAdaptiveVoicing(eng, Cardinality(activated[g] \cup {t.sign}))
                               EXCEPT !.envelope[t.sign] = "pulse",
                                      !.detune[t.sign] = "natal"]
                  /\ lastOp' = [op |-> "natalEntry", gen |-> g, thrown |-> FALSE,
                                calls |-> <<"detune", "voicing", "envelope",
                                            "attackRelease", "scheduleRepeat">>]
             ELSE /\ eng' = [applyAdaptiveVoicing(eng, Cardinality(activated[g] \cup {t.sign}))
                               EXCEPT !.voices[t.sign] = g,
                                      !.detune[t.sign] = "natal"]
                  /\ lastOp' = [op |-> "natalEntry", gen |-> g, thrown |-> FALSE,
                                calls |-> <<"detune", "voicing", "attack">>]
                  /\ UNCHANGED <<transport, natalPulseIdsRef>>
          /\ UNCHANGED <<tracked, params, engineRef, requested, buildVars>>
          /\ UNCHANGED <<mounted, enginePromise, pendingCalls, chaosVars, oscVars>>
          /\ UNCHANGED <<natalMode, natalChartDataRef, natalTimeoutIdsRef, plays>>

\* the callback of the finale timer: reverb bloom, the pulse repeats of
\* natalPulseIdsRef cleared, every voice cut, the restore timer set
FinaleFire ==
    /\ Due("finale")
    /\ \/ TimerThrows("natalFinale")
       \/ \E w \in FinaleWets :
          LET g       == timers[DueIndex].gen
              restore == Timer(g, "restore", 0, TailTicks, "-", "-")
          IN
          /\ eng' = ReleaseAll(SetEnvelopes([eng EXCEPT !.fx["reverbWet"] = w], "cut"))
          /\ transport' = transport \ natalPulseIdsRef.ids
          /\ natalPulseIdsRef' = NoPulseIds
          /\ activeSigns' = {}
          /\ timers' = Append(RestTimers, restore)
          /\ natalTimeoutIdsRef' = {TimerId(restore)}
          /\ lastOp' = [op |-> "natalFinale", gen |-> g, thrown |-> FALSE,
                        calls |-> <<"bloom", "clearPulses", "cut", "setRestore">>]
          /\ UNCHANGED <<tracked, params, engineRef, requested, buildVars>>
          /\ UNCHANGED <<mounted, enginePromise, pendingCalls, chaosVars, oscVars>>
          /\ UNCHANGED <<natalMode, natalChartDataRef, activated, plays>>

\* the callback of the restore timer: reverb wet and every envelope back
\* to the saved values
RestoreFire ==
    /\ Due("restore")
    /\ \/ TimerThrows("natalRestore")
       \/ /\ eng' = SetEnvelopes([eng EXCEPT !.fx["reverbWet"] = Saved("reverbWet")],
                                  "saved")
          /\ timers' = RestTimers
          /\ lastOp' = [op |-> "natalRestore", gen |-> timers[DueIndex].gen,
                        thrown |-> FALSE]
          /\ UNCHANGED <<tracked, params, engineRef, requested, buildVars>>
          /\ UNCHANGED <<lifeVars, chaosVars, oscVars>>
          /\ UNCHANGED <<natalMode, natalChartDataRef, natalTimeoutIdsRef,
                         natalPulseIdsRef, activated, plays>>

(***************************************************************************)
(* The callbacks of the repeats on Tone.Transport                          *)
(***************************************************************************)

\* the callbacks of the 0.2 s repeat one step of this model takes in a row
SpreadBurst == 10

\* the spread value of a fat sign after n runs of the callback, each of
\* them next = Math.min(current + 4, st.oscSpread) while current is below
SpreadAfter(current, n) ==
    IF current >= SHADOW.oscSpread THEN current
    ELSE IF current + 4 * n < SHADOW.oscSpread THEN current + 4 * n
    ELSE SHADOW.oscSpread

\* the engine after n runs of the spread callback
SpreadRun(E, n) ==
    [E EXCEPT !.spreadTracker = [s \in Signs |->
                 IF SignTypeIsFat(s) THEN SpreadAfter(@[s], n) ELSE @[s]]]

\* allDone: a run of the callback finds no fat sign below the Eclipse spread
AllDone(E) ==
    \A s \in Signs : SignTypeIsFat(s) => E.spreadTracker[s] >= SHADOW.oscSpread

\* the callback of a spread repeat, every 0.2 s: each fat sign below the
\* Eclipse spread is stepped; with none left the repeat clears itself
SpreadFire(p) ==
    /\ ~Draining
    /\ p \in transport
    /\ p.kind = "spread"
    /\ eng' = SpreadRun(eng, SpreadBurst)
    /\ transport' = IF AllDone(SpreadRun(eng, SpreadBurst - 1))
                    THEN transport \ {p} ELSE transport
    /\ lastOp' = [op |-> "spread"]
    /\ UNCHANGED <<tracked, params, engineRef, requested, buildVars>>
    /\ UNCHANGED <<mounted, enginePromise, pendingCalls, activeSigns>>
    /\ UNCHANGED <<chaosVars, oscVars, natalVars>>

\* the callback of a detune repeat, every 1.2 s: every sign's detune moves
\* toward a random target
DetuneFire(p) ==
    /\ ~Draining
    /\ p \in transport
    /\ p.kind = "detune"
    /\ eng' = [eng EXCEPT !.detuneDrifted = TRUE,
                          !.detune = [s \in Signs |-> "drift"],
                          !.detuneTracker = [s \in Signs |-> "drift"]]
    /\ lastOp' = [op |-> "detune"]
    /\ UNCHANGED <<tracked, params, engineRef, requested, buildVars>>
    /\ UNCHANGED <<lifeVars, chaosVars, oscVars, natalVars>>

\* the callback of a pulse repeat: one more blip of the sign
PulseFire(p) ==
    /\ ~Draining
    /\ p \in transport
    /\ p.kind = "pulse"
    /\ lastOp' = [op |-> "natalPulse", gen |-> p.n, thrown |-> FALSE]
    /\ UNCHANGED <<tracked, params, engineRef, eng, requested, buildVars>>
    /\ UNCHANGED <<lifeVars, chaosVars, oscVars, natalVars>>

\* the callback of the dampSweep repeat, every 0.05 s: reverb.dampening is
\* set, a value this model does not follow
DampSweepFire ==
    /\ ~Draining
    /\ DampSweepProc \in transport
    /\ UNCHANGED <<tracked, params, engineRef, eng, requested, lastOp, buildVars>>
    /\ UNCHANGED <<lifeVars, chaosVars, oscVars, natalVars>>

\* eng.dispose(): dampSweep.stop() clears the dampSweep repeat, every node
\* is disposed
dispose(E) == [E EXCEPT !.disposed = TRUE]

\* the cleanup of the unmount effect: the repeats of shadowIntervalsRef are
\* cleared, the engine is disposed and engineRef.current is null
Unmount ==
    /\ mounted
    /\ ~Draining
    /\ mounted' = FALSE
    /\ transport' = (transport \ shadowIntervalsRef)
                       \ (IF engineRef THEN {DampSweepProc} ELSE {})
    /\ eng' = IF engineRef THEN dispose(eng) ELSE eng
    /\ engineRef' = FALSE
    /\ lastOp' = [op |-> "unmount"]
    /\ UNCHANGED <<tracked, params, requested, buildVars>>
    /\ UNCHANGED <<enginePromise, pendingCalls, activeSigns>>
    /\ UNCHANGED <<chaosVars, oscVars, natalVars>>

(***************************************************************************)
(* Eclipse, Breathe and the knobs, from the first render on                *)
(***************************************************************************)

\* the App as it mounts, no engine yet
InitIdle ==
    /\ params = initParams(tracked)
    /\ engineRef = FALSE
    /\ eng = createEngine
    /\ requested = [n \in BypassNames |-> TRUE]
    /\ lastOp = [op |-> "init"]
    /\ config = ActiveChain
    /\ buildState = [built |-> FALSE]
    /\ enginePromise = "null"
    /\ transport = {}
    /\ InitApp

InitChaos ==
    /\ tracked \in {{k} : k \in ChaosKnobs}
    /\ InitIdle

NextChaos ==
    \/ \E k \in tracked : \E v \in EditLevels(k) : SetParam(k, v)
    \/ \E norm \in RandomDraws(tracked) : RandomizeParams(norm)
    \/ ToggleShadow
    \/ Breathe
    \/ EngineCreated
    \/ ResumeToggleShadow
    \/ ResumeBreathe
    \/ \E p \in transport : SpreadFire(p)
    \/ \E p \in transport : DetuneFire(p)
    \/ DampSweepFire
    \/ Unmount

SpecChaos == InitChaos /\ [][NextChaos]_vars

InitNatal ==
    /\ tracked = {"reverbWet"}
    /\ InitIdle

NextNatal ==
    \/ \E v \in EditLevels("reverbWet") : SetParam("reverbWet", v)
    \/ \E sched \in NatalSchedules : ComputeNatalChart(sched)
    \/ PlayNatalChart
    \/ \E sign \in Signs : ToggleSign(sign)
    \/ breathCount < MaxNatalBreathe /\ Breathe
    \/ EngineCreated
    \/ ResumePlayNatalChart
    \/ ResumeToggleSign
    \/ ResumeBreathe
    \/ TimerTick
    \/ GapFire
    \/ EntryFire
    \/ FinaleFire
    \/ RestoreFire
    \/ \E p \in transport : PulseFire(p)
    \/ DampSweepFire
    \/ Unmount

SpecNatal == InitNatal /\ [][NextNatal]_vars

(***************************************************************************)
(* The twelve keys of the keyboard, played by hand                         *)
(***************************************************************************)

InitVoicing ==
    /\ tracked = {"reverbWet"}
    /\ InitIdle

NextVoicing ==
    \/ \E sign \in ZodiacSigns : ToggleSign(sign)
    \/ EngineCreated
    \/ ResumeToggleSign

SpecVoicing == InitVoicing /\ [][NextVoicing]_vars

(***************************************************************************)
(* Eclipse with the keys played by hand and Breathe                        *)
(***************************************************************************)

InitEclipse ==
    /\ tracked = {"reverbWet"}
    /\ InitIdle

NextEclipse ==
    \/ ToggleShadow
    \/ Breathe
    \/ \E sign \in Signs : ToggleSign(sign)
    \/ EngineCreated
    \/ ResumeToggleShadow
    \/ ResumeBreathe
    \/ ResumeToggleSign
    \/ \E p \in transport : SpreadFire(p)
    \/ \E p \in transport : DetuneFire(p)

SpecEclipse == InitEclipse /\ [][NextEclipse]_vars

(***************************************************************************)
(* The engine over unmount and a later mount of the App: _enginePromise is *)
(* a variable of the module and outlives the component, engineRef is the   *)
(* component's                                                             *)
(***************************************************************************)

\* ensureEngine() called by a handler, for what the handler gets: the
\* engine of engineRef.current, or _enginePromise, which is settled
\* already or is waited for
EnsureEngine ==
    /\ mounted
    /\ ~Draining
    /\ IF engineRef \/ enginePromise = "resolved"
       THEN /\ lastOp' = [op |-> "ensureEngine",
                          from |-> IF engineRef THEN "engineRef" ELSE "promise",
                          disposed |-> eng.disposed]
            /\ UNCHANGED <<tracked, params, engineRef, eng, requested, buildVars>>
            /\ UNCHANGED <<lifeVars, chaosVars, oscVars, natalVars>>
       ELSE Await(Call("ensureEngine", "-"))

\* a caller of ensureEngine that waited for the engine gets it
ResumeEnsureEngine ==
    /\ Draining
    /\ Head(pendingCalls).op = "ensureEngine"
    /\ pendingCalls' = Tail(pendingCalls)
    /\ lastOp' = [op |-> "ensureEngine", from |-> "promise", disposed |-> eng.disposed]
    /\ UNCHANGED <<tracked, params, engineRef, eng, requested, buildVars>>
    /\ UNCHANGED <<mounted, enginePromise, transport, activeSigns>>
    /\ UNCHANGED <<chaosVars, oscVars, natalVars>>

\* the App mounts again after an unmount, no creation of an engine under
\* way: its state and refs are those of a first render, the module's
\* _enginePromise, the engine and the Transport are as they were left
Remount ==
    /\ ~mounted
    /\ enginePromise # "pending"
    /\ mounted' = TRUE
    /\ engineRef' = FALSE
    /\ params' = initParams(tracked)
    /\ activeSigns' = {}
    /\ shadow' = FALSE
    /\ shadowIntervalsRef' = {}
    /\ oscIndex' = -1
    /\ pendingOscTypeRef' = "none"
    /\ lastOp' = [op |-> "mount"]
    /\ UNCHANGED <<tracked, eng, requested, buildVars, enginePromise, pendingCalls>>
    /\ UNCHANGED <<transport, chaosEntry, breathCount, natalVars>>

InitLife ==
    /\ tracked = {"reverbWet"}
    /\ InitIdle

NextLife ==
    \/ EnsureEngine
    \/ \E sign \in Signs : ToggleSign(sign)
    \/ ToggleShadow
    \/ EngineCreated
    \/ ResumeEnsureEngine
    \/ ResumeToggleSign
    \/ ResumeToggleShadow
    \/ \E p \in transport : SpreadFire(p)
    \/ \E p \in transport : DetuneFire(p)
    \/ Unmount
    \/ Remount

SpecLife == InitLife /\ [][NextLife]_vars

(***************************************************************************)
(* The macro curves of the presets                                         *)
(***************************************************************************)

\* the presets: the MACROS and TUNING of presets/zodiac.js,
\* presets/deep-space-oracle.js, Tape Seance, Harmonic Furnace, Glass
\* Meridian and the macro edition of tuning.js.  Of each the echoSatDrive
\* of its TUNING and the numbers of its echoFeedback curve
\*     m <= 0.5 ? (m / 0.5) * mid : mid + rise * Math.pow((m - 0.5) / 0.5, exp)
\* drive, mid and rise in hundredths, exp in tenths
PRESETS ==
    [ zodiac          |-> [echoSatDrive |-> 90, mid |-> 62, rise |-> 23, exp |-> 13],
      deepSpaceOracle |-> [echoSatDrive |-> 45, mid |-> 55, rise |-> 37, exp |-> 8],
      tapeSeance      |-> [echoSatDrive |-> 80, mid |-> 75, rise |-> 13, exp |-> 10],
      harmonicFurnace |-> [echoSatDrive |-> 85, mid |-> 60, rise |-> 22, exp |-> 8],
      glassMeridian   |-> [echoSatDrive |-> 50, mid |-> 40, rise |-> 35, exp |-> 13],
      tuningMacros    |-> [echoSatDrive |-> 60, mid |-> 68, rise |-> 20, exp |-> 10] ]

PresetNames == DOMAIN PRESETS

\* the positions of a macro knob, 0 to 1 in hundredths
MacroValues == 0..100

\* 2^(-2^-i) for i = 1..12, in units of 2^-14
HalvingRoots ==
    << 11585, 13777, 15024, 15689, 16033, 16208, 16296, 16340, 16362, 16373,
       16378, 16381 >>

RECURSIVE Exp2NegFrac(_, _)
\* 2^(-f / 4096) for 0 <= f < 4096 in units of 2^-14, from the i-th binary
\* digit of f on: the product of the roots of the digits that are set
Exp2NegFrac(f, i) ==
    IF i > 12 THEN 16384
    ELSE IF (f \div (2 ^ (12 - i))) % 2 = 1
         THEN (HalvingRoots[i] * Exp2NegFrac(f, i + 1)) \div 16384
         ELSE Exp2NegFrac(f, i + 1)

\* 2^(-t / 4096) for t >= 0, in units of 2^-14
Exp2Neg(t) ==
    IF t \div 4096 > 14 THEN 0
    ELSE Exp2NegFrac(t % 4096, 1) \div (2 ^ (t \div 4096))

\* Math.pow(n / d, exp / 10) for 0 <= n <= d, in units of 2^-14:
\* 2^(exp/10 * log2(n / d))
Pow(n, d, exp) ==
    IF n = 0 THEN 0
    ELSE IF n = d THEN 16384
    ELSE Exp2Neg((exp * Log2((d * 16384) \div n, 0)) \div 10)

echoFeedback_NoKnee(preset, m) == (m * 2) * PRESETS[preset].mid

\* MACROS.echo.params.echoFeedback(m) of a preset, for m in hundredths, in
\* ten-thousandths
echoFeedback(preset, m) ==
    LET c == PRESETS[preset] IN
    IF m <= 50 THEN (m * 2) * c.mid
    ELSE c.mid * 100 + (c.rise * 100 * Pow(m - 50, 50, c.exp)) \div 16384

\* the echoFeedback curve of a preset is evaluated at a macro value
EvalEchoFeedback(preset, m) ==
    /\ curveEval' = [fn |-> "echoFeedback", preset |-> preset, m |-> m,
                     out |-> echoFeedback(preset, m)]
    /\ UNCHANGED <<tracked, params, engineRef, eng, requested, lastOp, config, buildState>>
    /\ UNCHANGED engineLog
    /\ UNCHANGED <<lifeVars, chaosVars, oscVars, natalVars>>

\* array curves of MACROS, in the units that make their numbers whole
\* (hundredths; Hz for reverbDamp; dB for eqHigh): min, mid, max of a split
\* curve, base and max of a dormant one.  No preset has a dormantLog curve;
\* the last entry is one over the range of a filter sweep.
CURVES ==
    << [param |-> "attack",        kind |-> "splitLog",      a |-> 1,    b |-> 150,  c |-> 800],
       [param |-> "reverbDamp",    kind |-> "splitLog",      a |-> 8000, b |-> 1500, c |-> 600],
       [param |-> "echoTime",      kind |-> "splitLog",      a |-> 10,   b |-> 80,   c |-> 250],
       [param |-> "sustain",       kind |-> "splitLinear",   a |-> 0,    b |-> 20,   c |-> 80],
       [param |-> "reverbRoom",    kind |-> "splitLinear",   a |-> 30,   b |-> 95,   c |-> 100],
       [param |-> "eqHigh",        kind |-> "splitLinear",   a |-> 12,   b |-> -6,   c |-> -24],
       [param |-> "aetherShimmer", kind |-> "dormantLinear", a |-> 0,    b |-> 0,    c |-> 60],
       [param |-> "satMix",        kind |-> "dormantLinear", a |-> 0,    b |-> 0,    c |-> 100],
       [param |-> "sweep",         kind |-> "dormantLog",    a |-> 200,  b |-> 200,  c |-> 2000] >>

\* the macro positions a curve is evaluated at: every twentieth
CurveMacroValues == {5 * i : i \in 0..20}

\* from + (to - from) * t, for t in tenths
LinInterp(from, to, t) == from + ((to - from) * t) \div 10

\* from * (to / from)^t, for t in tenths and from, to > 0; the power with
\* exponent 1 is the ratio itself
LogInterp(from, to, t) ==
    IF t = 0 THEN from
    ELSE IF t = 10 THEN (from * to) \div from
    ELSE IF to <= from THEN (from * Pow(to, from, t)) \div 16384
    ELSE (from * 16384) \div Pow(from, to, t)

resolve_OneSegment(curve, m) == LinInterp(curve.a, curve.c, m \div 10)

\* resolve(spec)(m): a split curve runs from min to mid over the lower half
\* of the macro and from mid to max over the upper half; a dormant curve
\* holds base up to one half and runs to max above
resolve(curve, m) ==
    LET lower == m \div 5
        upper == (m - 50) \div 5
    IN
    CASE curve.kind = "splitLog" ->
            IF m <= 50 THEN LogInterp(curve.a, curve.b, lower)
            ELSE LogInterp(curve.b, curve.c, upper)
      [] curve.kind = "splitLinear" ->
            IF m <= 50 THEN LinInterp(curve.a, curve.b, lower)
            ELSE LinInterp(curve.b, curve.c, upper)
      [] curve.kind = "dormantLinear" ->
            IF m <= 50 THEN curve.a ELSE LinInterp(curve.a, curve.c, upper)
      [] curve.kind = "dormantLog" ->
            IF m <= 50 THEN curve.a ELSE LogInterp(curve.a, curve.c, upper)

\* an array curve is resolved and evaluated at a macro value
EvalCurve(i, m) ==
    /\ curveEval' = [fn |-> "curve", curve |-> CURVES[i], m |-> m,
                     out |-> resolve(CURVES[i], m)]
    /\ UNCHANGED <<tracked, params, engineRef, eng, requested, lastOp, config, buildState>>
    /\ UNCHANGED engineLog
    /\ UNCHANGED <<lifeVars, chaosVars, oscVars, natalVars>>

InitPresets ==
    /\ tracked = {"delayFeedback"}
    /\ InitIdle

NextPresets ==
    \/ \E preset \in PresetNames : \E m \in MacroValues : EvalEchoFeedback(preset, m)
    \/ \E i \in DOMAIN CURVES : \E m \in CurveMacroValues : EvalCurve(i, m)

SpecPresets == InitPresets /\ [][NextPresets]_vars

(***************************************************************************)
(* Claims on the echo loop, Eclipse, teardown and natal playback           *)
(***************************************************************************)

\* C1: whenever the engine exists, the echo loop's linear gain, the
\* saturator drive times the feedback coefficient set or ramped to on
\* echoFeedbackGain, is below 1: after creation, after a delayFeedback edit,
\* after Randomize and with the Eclipse target.
C1_LoopGainBelowOne ==
    enginePromise = "resolved" =>
        EchoSatDrive * eng.fx["delayFeedback"] < 100 * 100

\* the feedback knob is dragged to its maximum while Eclipse is on
C1_Witness ==
    /\ enginePromise = "resolved"
    /\ shadow
    /\ lastOp.op = "setParam"
    /\ "delayFeedback" \in tracked
    /\ eng.fx["delayFeedback"] = KNOB_DEFS["delayFeedback"].max

\* C7: a toggleShadow that runs its enable branch while Eclipse is already
\* on, or its disable branch while Eclipse is off, changes nothing: no ramp,
\* no repeat scheduled or cleared, the shadow flag as it was.
C7_ReentrantToggleNoop ==
    [][ ( /\ lastOp'.op = "toggleShadow"
          /\ \/ lastOp'.branch = "enable" /\ shadow
             \/ lastOp'.branch = "disable" /\ ~shadow )
        => /\ eng' = eng
           /\ transport' = transport
           /\ shadowIntervalsRef' = shadowIntervalsRef
           /\ shadow' = shadow ]_vars

\* C8: when Eclipse is left, each of the eight Eclipse parameters is ramped
\* to its value in paramsRef.current as it is then: a knob edited while
\* Eclipse was on is restored to the edited value.
C8_DisableRestoresCurrent ==
    (lastOp.op \in {"toggleShadow", "breathe"} /\ lastOp.branch = "disable")
        => \A k \in ChaosKnobs : eng.fx[k] = Saved(k)

\* Eclipse was left after a knob was edited under it: the value restored is
\* the edited one, neither the one before Eclipse nor the Eclipse target
C8_Witness ==
    /\ lastOp.op = "toggleShadow"
    /\ lastOp.branch = "disable"
    /\ \E k \in tracked :
          /\ Saved(k) # chaosEntry[k]
          /\ Saved(k) # SHADOW[k]
          /\ eng.fx[k] = Saved(k)

\* C9: once the component has unmounted and the engine is disposed, no
\* repeat is left on the Transport: spread, detune, pulse and dampSweep
\* repeats are all cleared.
C9_NoProcessAfterTeardown ==
    (~mounted /\ eng.disposed) => transport = {}

\* C10: once playNatalChart has started a new composition, no entry, pulse,
\* finale or restore of an earlier composition runs and no voice an earlier
\* composition started is sounding, however close the requests are.
C10_PreviousCompositionCancelled ==
    /\ lastOp.op \in {"natalEntry", "natalPulse", "natalFinale", "natalRestore"}
          => lastOp.gen = plays
    /\ \A s \in Signs : eng.voices[s] > 0 => eng.voices[s] = plays

(***************************************************************************)
(* Claims on the finale, adaptive voicing and the Breathe cycle            *)
(***************************************************************************)

Attacks == {"attack", "attackRelease"}

C13_BoostValues_AsStated ==
    engineRef =>
       /\ eng.boost = Boost(eng.voicing)
       /\ eng.voicing = 12 => eng.boost = 0
       /\ eng.voicing = 6 => (eng.boost - 1500) \in -20..20
       /\ eng.voicing = 3 => (eng.boost - 3000) \in -20..20
       /\ eng.voicing = 1 => (eng.boost - 5440) \in -20..20
       /\ eng.voicing = 0 => eng.boost = 0

\* C13, amended: the offset is 5*log10(12 / max(1, a)) dB for a > 0 and 0
\* for a = 0, falling as a grows; 0 at 12 voices, about 1.5 at 6, about 3
\* at 3, about 5.40 at 1, 0 at 0 (about: within 0.02 dB)
C13_BoostValues ==
    engineRef =>
       /\ eng.voicing \in 0..12
       /\ eng.boost = (IF eng.voicing > 0 THEN FiveLog10(12, Max1(eng.voicing)) ELSE 0)
       /\ \A a \in 1..11 : Boost(a) > Boost(a + 1)
       /\ eng.voicing = 12 => eng.boost = 0
       /\ eng.voicing = 6 => (eng.boost - 1500) \in -20..20
       /\ eng.voicing = 3 => (eng.boost - 3000) \in -20..20
       /\ eng.voicing = 1 => (eng.boost - 5400) \in -20..20
       /\ eng.voicing = 0 => eng.boost = 0

\* the last of twelve keys has been pressed
C13_Witness ==
    /\ lastOp.op = "toggleSign"
    /\ lastOp.branch = "on"
    /\ activeSigns = ZodiacSigns
    /\ eng.voicing = 12
    /\ eng.boost = 0

\* C14: for every preset and every macro value m in [0,1] the preset's
\* echoSatDrive times its echoFeedback(m) is below 1, and echoFeedback(m)
\* lies between 0 and the top of the curve, mid + rise
C14_PresetLoopGainBelowOne ==
    curveEval.fn = "echoFeedback" =>
       LET c == PRESETS[curveEval.preset] IN
       /\ c.echoSatDrive * curveEval.out < 100 * 10000
       /\ curveEval.out >= 0
       /\ curveEval.out <= (c.mid + c.rise) * 100

\* the steepest preset, Zodiac, is evaluated at the top of the macro
C14_Witness ==
    /\ curveEval.fn = "echoFeedback"
    /\ curveEval.preset = "zodiac"
    /\ curveEval.m = 100
    /\ curveEval.out = 8500

\* C15: setParam with a name that is no knob is rejected as a usage error:
\* the call throws and stores nothing under the name
C15_UnknownNameRejected ==
    /\ (lastOp.op = "setParam" /\ lastOp.knob \notin Knobs) => lastOp.thrown
    /\ DOMAIN params \subseteq Knobs

BreatheCycle ==
    << "per-sign", "fatsine", "amsine", "fattriangle", "amtriangle", "fmtriangle",
       "fatsawtooth", "fmsine", "fatsquare" >>

\* the oscillator selection the `oscIndex` state stands for
Selection(index) == IF index = -1 THEN "per-sign" ELSE OSC_TYPES[index + 1]

\* the selection that follows sel in the documented cycle
CycleSucc(sel) ==
    LET i == CHOOSE j \in DOMAIN BreatheCycle : BreatheCycle[j] = sel IN
    BreatheCycle[(i % Len(BreatheCycle)) + 1]

\* C17: each Breathe press, once its handler has run, has moved the
\* oscillator selection one step along per-sign, fatsine, amsine,
\* fattriangle, amtriangle, fmtriangle, fatsawtooth, fmsine, fatsquare and
\* back to per-sign
C17_BreatheCycleOrder ==
    [][ (/\ lastOp'.op = "breathe"
         /\ \/ engineRef /\ breathCount' = breathCount + 1
            \/ Draining /\ pendingCalls' = Tail(pendingCalls))
        => Selection(oscIndex') = CycleSucc(Selection(oscIndex)) ]_vars

(***************************************************************************)
(* Claims on the wired chain and on the Eclipse repeats                    *)
(***************************************************************************)

\* the node an input of the crossfade belongs to
NodeOf(x) == IF x \in {"echoCrossfade.a", "echoCrossfade.b"} THEN "echoCrossfade" ELSE x

RECURSIVE Downstream(_, _)
\* the nodes a signal leaving the nodes of S gets to over the connections
Downstream(S, edges) ==
    LET T == S \cup {NodeOf(e[2]) : e \in {x \in edges : x[1] \in S}} IN
    IF T = S THEN S ELSE Downstream(T, edges)

\* C18: in the wired chain the Freeverb is fed, its output feeds the node
\* that follows "reverb" in the order, Chorus, and so it lies on the path
\* from the sum bus to the output
C18_FreeverbInPath ==
    engineRef =>
       /\ \E e \in eng.edges : e[2] = "Freeverb"
       /\ <<"Freeverb", "chorus">> \in eng.edges
       /\ "Freeverb" \in Downstream({"sumBus"}, eng.edges)
       /\ Destination \in Downstream({"Freeverb"}, eng.edges)

\* C19: when no timer of setBypass is pending for a bypass node, its flag
\* agrees with the graph: flagged bypassed exactly when `after` is wired
\* straight to `before` and the node hangs on neither, flagged active
\* exactly when the node is spliced between them and the direct edge is gone
C19_FlagAgreesWithGraph ==
    engineRef =>
       \A n \in BypassNames :
          eng.bypassTimers[n] = << >> =>
             /\ eng.bypassState[n] <=> BypassedTopology(eng, n)
             /\ ~eng.bypassState[n] <=> ActiveTopology(eng, n)

\* a node was spliced in, bypassed again and its timer has swapped it out
C19_Witness ==
    /\ engineRef
    /\ lastOp.op = "bypassTimer"
    /\ \E n \in BypassNames :
          /\ lastOp.node = n
          /\ eng.bypassTimers[n] = << >>
          /\ eng.bypassState[n]
          /\ BypassedTopology(eng, n)
          /\ eng.lastSplice[n].kind = "out"
    /\ \E n \in BypassNames :
          /\ eng.bypassTimers[n] = << >>
          /\ ~eng.bypassState[n]
          /\ ActiveTopology(eng, n)

\* the scheduled repeats of one kind
Scheduled(kind) == {q \in transport : q.kind = kind}

\* C20: whatever the order of Eclipse toggles and Breathe presses, at most
\* one spread repeat and one detune repeat are scheduled, every scheduled
\* one is held in shadowIntervalsRef, and none is scheduled while shadow
\* is false
C20_OneShadowPair ==
    /\ Cardinality(Scheduled("spread")) <= 1
    /\ Cardinality(Scheduled("detune")) <= 1
    /\ Scheduled("spread") \cup Scheduled("detune") \subseteq shadowIntervalsRef
    /\ ~shadow => Scheduled("spread") \cup Scheduled("detune") = {}

(***************************************************************************)
(* Claims on the Eclipse repeats, the voicing, the engine's life and the   *)
(* chain configs                                                           *)
(***************************************************************************)

\* C21: once Eclipse has been left, by its button or by Breathe, no
\* callback of a spread repeat or of a detune repeat runs before Eclipse is
\* entered again: the step after the leaving one is never such a callback
C21_NoTickAfterDisable ==
    [][ (/\ lastOp.op \in {"toggleShadow", "breathe"}
         /\ lastOp.branch = "disable")
        => lastOp'.op \notin {"spread", "detune"} ]_vars

\* C22: while Eclipse stays on, the spread of a voice of a fat type never
\* goes down and never passes SHADOW.oscSpread
C22_SpreadMonotoneToCeiling ==
    [][ (shadow /\ shadow' /\ engineRef /\ engineRef')
        => \A s \in Signs :
              (SignTypeIsFat(s) /\ SignTypeIsFat(s)')
              => /\ eng'.spreadTracker[s] >= eng.spreadTracker[s]
                 /\ eng'.spreadTracker[s] <= SHADOW.oscSpread ]_vars

\* the signs whose voice sounds: attacked and not released, or blipped by a
\* pulse repeat that is scheduled
SoundingSigns ==
    {s \in Signs : \/ eng.voices[s] # 0
                   \/ \E p \in transport : p.kind = "pulse" /\ p.sign = s}

\* C23: after a key toggle, a natal event, a natal finale, a natal stop or
\* a Breathe, the boost the synth volumes stand for is the boost of
\* applyAdaptiveVoicing for the number of voices that sound
C23_VoicingMatchesActive ==
    (/\ engineRef
     /\ lastOp.op \in {"toggleSign", "natalEntry", "natalFinale", "playNatalChart",
                       "breathe"}
     /\ lastOp.op \in {"natalEntry", "natalFinale"} => ~lastOp.thrown)
        => eng.boost = Boost(Cardinality(SoundingSigns))

\* C24: ensureEngine never gives a caller an engine whose dispose() has
\* run: after the unmount has disposed the engine, the next call gets a
\* new one
C24_NeverHandsOutDisposed ==
    lastOp.op = "ensureEngine" => ~lastOp.disposed

\* C25: however many callers of ensureEngine wait for the engine,
\* createEngine was called once and all of them wait for that one engine
C25_OneCreation ==
    pendingCalls # << >> =>
        /\ engineLog.created = 1
        /\ engineLog.handed = {1}

\* as many callers as the queue holds wait for one creation, and the
\* engine is there for them
C25_Witness ==
    /\ Len(pendingCalls) >= 2
    /\ enginePromise = "resolved"
    /\ engineRef
    /\ \E i, j \in 1..Len(pendingCalls) :
          pendingCalls[i].op = "ensureEngine" /\ pendingCalls[j].op # "ensureEngine"

\* C26: the detune tracker of every voice holds the detune its synth was
\* last set to, whichever handler set it (the spread tracker is written
\* together with every spread the code sets)
C26_TrackersMatchSynth ==
    engineRef => \A s \in Signs : eng.detuneTracker[s] = eng.detune[s]

\* C27: when no handler is under way, the signs of activeSigns are the
\* signs whose voice was started and has not been released
C27_ActiveSignsAreSounding ==
    (engineRef /\ ~Draining) => activeSigns = SoundingSigns

\* the output the walk of wireChain runs on after the i-th entry of an
\* order, the source before the first
RunningOutput(order, i) ==
    IF i = 0 THEN "highpass"
    ELSE IF order[i] = "ECHO" THEN "echoCrossfade" ELSE chainNodes(order[i])

\* no name is listed twice
NoRepeats(order) == \A i, j \in 1..Len(order) : order[i] = order[j] => i = j

\* C28: wireChain connects the source to the first entry of `order`, each
\* entry to the next and the last to the destination; at ECHO the running
\* output feeds the crossfade's dry input and, over the input attenuator and
\* the delay, its wet input, and the crossfade is the running output from
\* there.  With each name listed once these are all the connections made:
\* one path in the listed order
C28_LinearChain ==
    buildState.built =>
       LET order == config.order
           edges == buildState.result.edges
       IN  /\ \A i \in 1..Len(order) :
                 LET prev == RunningOutput(order, i - 1) IN
                 IF order[i] = "ECHO"
                 THEN { <<prev, "echoCrossfade.a">>, <<prev, "echoInputGain">>,
                        <<"echoInputGain", "echoDelay">>,
                        <<"echoDelay", "echoCrossfade.b">> } \subseteq edges
                 ELSE <<prev, chainNodes(order[i])>> \in edges
           /\ <<RunningOutput(order, Len(order)), Destination>> \in edges
           /\ NoRepeats(order) =>
                 Cardinality(edges) = Len(order) + 1 + 3 * Count(order, "ECHO")

\* an order with the sentinel between two nodes has been wired
C28_Witness ==
    /\ buildState.built
    /\ config.order = <<"chebyshev", "ECHO", "distortion">>
    /\ {<<"chebyshev", "echoCrossfade.a">>, <<"echoCrossfade", "distortion">>,
        <<"distortion", Destination>>} \subseteq buildState.result.edges
    /\ Cardinality(buildState.result.edges) = 7

\* the names an order lists
Listed(order) == {order[i] : i \in 1..Len(order)}

\* C29: every shipped chain config is well-formed: the sentinel ECHO is in
\* `order` at most once, no bypass node is in `order`, and the `after` and
\* `before` of every bypass entry are in `order`
C29_ShippedChainsWellFormed ==
    config \in ShippedChains =>
       /\ Cardinality({i \in 1..Len(config.order) : config.order[i] = "ECHO"}) <= 1
       /\ \A n \in DOMAIN config.bypass :
             /\ n \notin Listed(config.order)
             /\ config.bypass[n].after \in Listed(config.order)
             /\ config.bypass[n].before \in Listed(config.order)

\* a shipped config with bypass nodes has been wired
C29_Witness ==
    /\ buildState.built
    /\ config = CHAINS.cathedral
    /\ DOMAIN config.bypass = {"distortion", "phaser"}
    /\ ~buildState.result.error

\* C30: when Eclipse is left, by its button or by Breathe, every voice's
\* spread and detune and their trackers are back at the sign's own
\* oscSpread and detuneCents
C30_DisableResetsSpreadAndDetune ==
    (lastOp.op \in {"toggleShadow", "breathe"} /\ lastOp.branch = "disable")
        => \A s \in Signs :
              /\ eng.spreadTracker[s] = SignSpread[s]
              /\ eng.detune[s] = "base"
              /\ eng.detuneTracker[s] = "base"

==========================================================================
